---- MODULE Spec2Model ----
(***************************************************************************)
(* Optical-flow fusion unit of the local position estimator                *)
(* (src/modules/local_position_estimator/sensors/flow.cpp).                *)
(*                                                                         *)
(* Floating-point quantities are carried in fixed point:                   *)
(*   angles and angle integrals   milliradian                              *)
(*   lengths (agl, d, delta)      millimetre                               *)
(*   velocities, std deviations   metre/second                             *)
(*   times                        microsecond                              *)
(* and a quotient is truncated toward zero.                                *)
(***************************************************************************)
EXTENDS Integers, Sequences, FiniteSets, TLC

VARIABLES
    flowInitialized,   \* _flowInitialized
    flowFault,         \* _flowFault
    fault_lvl_disable, \* fault_lvl_disable (build constant, fixed at Init)
    flowQStats,        \* _flowQStats.getCount()
    timeStamp,         \* _timeStamp
    time_last_flow,    \* _time_last_flow
    hp_x,              \* _flow_gyro_x_high_pass  [u, y]
    hp_y,              \* _flow_gyro_y_high_pass  [u, y]
    x,                 \* _x, components X_vx, X_vy
    P,                 \* _P, diagonal entries for X_vx, X_vy
    flow_innov,        \* _pub_innov.get().flow_innov
    flow_innov_var,    \* _pub_innov.get().flow_innov_var
    sub,               \* data of _sub_att, _sub_flow, agl(), _validTZ and the
                       \* parameters read by the last measuring call
    lastOp,            \* the entry point that ran last
    ret,               \* what flowMeasure returned in that call
    beta,              \* local beta of that call (flowCorrect)
    fault_in,          \* _flowFault on entry of that call
    log                \* diagnostic emitted by that call

vars == <<flowInitialized, flowFault, fault_lvl_disable, flowQStats, timeStamp,
          time_last_flow, hp_x, hp_y, x, P, flow_innov, flow_innov_var,
          sub, lastOp, ret, beta, fault_in, log>>

(***************************************************************************)
(* Program constants                                                       *)
(***************************************************************************)
REQ_FLOW_INIT_COUNT == 10
FLOW_TIMEOUT == 1000000
flow_min_agl == 300
OK == 0
NoMeasure == OK + 1      \* ret of an entry point that does not measure

FAULT_NONE == 0
FAULT_MINOR == 1
FAULT_SEVERE == 2
FaultLevels == {FAULT_NONE, FAULT_MINOR, FAULT_SEVERE}

n_y_flow == 2
BETA_TABLE == (0 :> 0) @@ (1 :> 8) @@ (2 :> 12)

\* parameters
flow_min_q == 75
flow_vxy_stddev == 1
flow_vxy_d_stddev == 1
flow_vxy_r_stddev == 1

\* velocity variance of _P as constructed
InitP == 1

\* a larger velocity variance of _P, as after prediction steps
InitPFusion == 4

(***************************************************************************)
(* Bounds                                                                  *)
(***************************************************************************)
MaxCount == 12
MaxTime == 1000001
MaxTimeLive == 2000002

(***************************************************************************)
(* Fixed-point helpers                                                     *)
(***************************************************************************)
Div(a, b) == IF a >= 0 THEN a \div b ELSE -((-a) \div b)

\* cosf, sinf on the angles the inputs take (x1000)
cosf(a) == CASE a = 0 -> 1000
             [] a = 500 -> 878
             [] a = -500 -> 878
             [] a = 600 -> 825
             [] a = -600 -> 825

sinf(a) == CASE a = 0 -> 0
             [] a = 500 -> 479
             [] a = -500 -> -479
             [] a = 600 -> 565
             [] a = -600 -> -565

RECURSIVE SqrtFrom(_, _)
SqrtFrom(n, k) == IF (k + 1) * (k + 1) > n THEN k ELSE SqrtFrom(n, k + 1)
sqrtf(n) == SqrtFrom(n, 0)

(***************************************************************************)
(* Inputs of one cycle: attitude, flow sample, agl(), flags, parameters    *)
(***************************************************************************)
Nominal ==
    [roll |-> 0, pitch |-> 0,
     rollspeed |-> 0, pitchspeed |-> 0, yawspeed |-> 0,
     agl |-> 1000, validTZ |-> TRUE, validXY |-> TRUE,
     quality |-> 100,
     pixel_flow_x_integral |-> 10, pixel_flow_y_integral |-> 0,
     gyro_x_rate_integral |-> 0, gyro_y_rate_integral |-> 0,
     integration_timespan |-> 10000,
     flow_gyro_comp |-> FALSE]

Angles == {-600, 0, 500, 600}
Heights == {200, 300, 1000}
Qualities == {flow_min_q - 1, flow_min_q, 100}
Timespans == {0, 1, 10000, 500000, 500001}

\* the samples of a flight: the nominal one, one beyond each attitude bound,
\* one rejected by the height gate, one rejected for its integration span
\* and an outlier
Samples ==
    {Nominal,
     [Nominal EXCEPT !.roll = 600],
     [Nominal EXCEPT !.roll = -600],
     [Nominal EXCEPT !.agl = 200],
     [Nominal EXCEPT !.quality = flow_min_q - 1],
     [Nominal EXCEPT !.validTZ = FALSE],
     [Nominal EXCEPT !.flow_gyro_comp = TRUE],
     [Nominal EXCEPT !.integration_timespan = 500001],
     [Nominal EXCEPT !.pixel_flow_x_integral = 90]}

\* every combination of the inputs the validity gates read
GateSamples ==
    {[Nominal EXCEPT !.roll = r, !.pitch = p, !.agl = h, !.quality = q,
                     !.validTZ = v, !.integration_timespan = t] :
        r \in Angles, p \in Angles, h \in Heights, q \in Qualities,
        v \in BOOLEAN, t \in Timespans}

(***************************************************************************)
(* BlockHighPass::update, a = 1/2                                          *)
(***************************************************************************)
HighPassUpdate(f, input) ==
    [u |-> input, y |-> Div(f.y + input - f.u, 2)]

(***************************************************************************)
(* flowMeasure                                                             *)
(***************************************************************************)
\* check for sane pitch/roll
AttitudeReject(s) == s.roll > 500 \/ s.pitch > 500

AglReject_le(s) == s.agl <= flow_min_agl

\* check for agl
AglReject(s) == s.agl < flow_min_agl

\* check quality
QualityReject(s) == s.quality < flow_min_q

\* !_validTZ
TZReject(s) == ~s.validTZ

\* dt_flow > 0.5f || dt_flow < 1.0e-6f, dt_flow = integration_timespan / 1e6
DtReject(s) == s.integration_timespan > 500000 \/ s.integration_timespan < 1

MeasureReject(s) ==
    AttitudeReject(s) \/ AglReject(s) \/ QualityReject(s) \/ TZReject(s)
    \/ DtReject(s)

\* d = agl() * cosf(roll) * cosf(pitch)
GroundDistance(s) == Div(Div(s.agl * cosf(s.roll), 1000) * cosf(s.pitch), 1000)

GyroFilter_always(s, f, input) ==
    IF ~MeasureReject(s) THEN HighPassUpdate(f, input) ELSE f

\* the filters as flowMeasure leaves them
GyroFilter(s, f, input) ==
    IF ~MeasureReject(s) /\ s.flow_gyro_comp THEN HighPassUpdate(f, input)
    ELSE f

\* gyro_x_rad, gyro_y_rad
GyroRad(s, f, input) ==
    IF s.flow_gyro_comp THEN HighPassUpdate(f, input).y ELSE 0

DeltaB_unsigned(s, fx, fy) ==
    LET d == GroundDistance(s)
    IN <<Div((s.pixel_flow_x_integral
                 - GyroRad(s, fx, s.gyro_x_rate_integral)) * d, 1000),
         Div((s.pixel_flow_y_integral
                 - GyroRad(s, fy, s.gyro_y_rate_integral)) * d, 1000)>>

\* delta_b (first two components), in mm
DeltaB(s, fx, fy) ==
    LET d == GroundDistance(s)
    IN <<Div(-(s.pixel_flow_x_integral
                 - GyroRad(s, fx, s.gyro_x_rate_integral)) * d, 1000),
         Div(-(s.pixel_flow_y_integral
                 - GyroRad(s, fy, s.gyro_y_rate_integral)) * d, 1000)>>

\* R_nb of the attitude (yaw 0), rows 1 and 2, columns 1 and 2 (x1000)
R_nb(s) ==
    <<<<cosf(s.pitch), Div(sinf(s.pitch) * sinf(s.roll), 1000)>>,
      <<0, cosf(s.roll)>>>>

\* delta_n = R_nb * delta_b
DeltaN(s, fx, fy) ==
    LET b == DeltaB(s, fx, fy)
        R == R_nb(s)
    IN <<Div(R[1][1] * b[1] + R[1][2] * b[2], 1000),
         Div(R[2][1] * b[1] + R[2][2] * b[2], 1000)>>

\* y = delta_n / dt_flow
MeasureY(s, fx, fy) ==
    LET n == DeltaN(s, fx, fy)
    IN <<Div(n[1] * 1000, s.integration_timespan),
         Div(n[2] * 1000, s.integration_timespan)>>

MeasureTimeLast_never(s, now, last) == last

MeasureTimeLast_swapped(s, now, last) ==
    IF MeasureReject(s) THEN now ELSE last

\* _time_last_flow as flowMeasure leaves it
MeasureTimeLast(s, now, last) == IF MeasureReject(s) THEN last ELSE now

MeasureCount_reset(s, cnt) == IF MeasureReject(s) THEN 0 ELSE cnt + 1

\* _flowQStats count as flowMeasure leaves it
MeasureCount(s, cnt) == IF MeasureReject(s) THEN cnt ELSE cnt + 1

\* return value
MeasureRet(s) == IF MeasureReject(s) THEN -1 ELSE OK

(***************************************************************************)
(* flowCorrect                                                             *)
(***************************************************************************)
\* rot_rate_norm
RotRateNorm(s) ==
    sqrtf(s.rollspeed * s.rollspeed + s.pitchspeed * s.pitchspeed
          + s.yawspeed * s.yawspeed)

\* R(Y_flow_vx, Y_flow_vx) = R(Y_flow_vy, Y_flow_vy)
NoiseR(s) ==
    LET sd == flow_vxy_stddev
              + Div(flow_vxy_d_stddev * GroundDistance(s), 1000)
              + flow_vxy_r_stddev * RotRateNorm(s)
    IN sd * sd

\* r = y - C * _x
Residual(y, xx) == <<y[1] - xx[1], y[2] - xx[2]>>

\* diagonal of C * _P * C^T + R
ResidualCov(s, PP) == <<PP[1] + NoiseR(s), PP[2] + NoiseR(s)>>

\* what is published as flow_innov_var
InnovVar(s, PP) == <<NoiseR(s), NoiseR(s)>>

\* beta = r^T * (S_I * r)
Beta(r, S) == Div(r[1] * r[1], S[1]) + Div(r[2] * r[2], S[2])

FaultDetect_set(f, b) ==
    IF b > BETA_TABLE[n_y_flow] THEN FAULT_MINOR
    ELSE (IF f # 0 THEN FAULT_NONE ELSE f)

FaultDetect_escalate(f, b) ==
    IF b > BETA_TABLE[n_y_flow]
    THEN (IF f < FAULT_SEVERE THEN f + 1 ELSE f)
    ELSE (IF f # 0 THEN FAULT_NONE ELSE f)

\* fault detection
FaultDetect(f, b) ==
    IF b > BETA_TABLE[n_y_flow]
    THEN (IF f < FAULT_MINOR THEN FAULT_MINOR ELSE f)
    ELSE (IF f # 0 THEN FAULT_NONE ELSE f)

CorrectionEnabled_le(f, lvl) == f <= lvl

\* whether the correction is applied
CorrectionEnabled(f, lvl) == f < lvl

\* correctionLogic(dx): no velocity correction without a valid xy estimate
correctionLogic(s, dx) == IF s.validXY THEN dx ELSE <<0, 0>>

\* dx = K * r, K = _P * C^T * S_I
StateCorrection(s, r, PP, S) ==
    correctionLogic(s, <<Div(PP[1] * r[1], S[1]), Div(PP[2] * r[2], S[2])>>)

\* _P -= K * C * _P
CovCorrection(PP, S) ==
    <<PP[1] - Div(PP[1] * PP[1], S[1]), PP[2] - Div(PP[2] * PP[2], S[2])>>

(***************************************************************************)
(* Initial state: the estimator as constructed                             *)
(***************************************************************************)
Init ==
    /\ flowInitialized = FALSE
    /\ flowFault \in FaultLevels
    /\ fault_lvl_disable \in {FAULT_MINOR, FAULT_SEVERE}
    /\ flowQStats = 0
    /\ timeStamp = 0
    /\ time_last_flow = 0
    /\ hp_x = [u |-> 0, y |-> 0]
    /\ hp_y = [u |-> 0, y |-> 0]
    /\ x = <<0, 0>>
    /\ P = <<InitP, InitP>>
    /\ flow_innov = <<0, 0>>
    /\ flow_innov_var = <<0, 0>>
    /\ sub = Nominal
    /\ lastOp = "none"
    /\ ret = NoMeasure
    /\ beta = 0
    /\ fault_in = flowFault
    /\ log = "none"

(***************************************************************************)
(* Entry points                                                            *)
(***************************************************************************)
\* the part of both measuring entry points that is flowMeasure
Measure(s) ==
    /\ MeasureReject(s) \/ flowQStats < MaxCount
    /\ sub' = s
    /\ ret' = MeasureRet(s)
    /\ time_last_flow' = MeasureTimeLast(s, timeStamp, time_last_flow)
    /\ hp_x' = GyroFilter(s, hp_x, s.gyro_x_rate_integral)
    /\ hp_y' = GyroFilter(s, hp_y, s.gyro_y_rate_integral)

InitCount_keep(s, cnt) == MeasureCount(s, cnt)

\* count after flowInit
InitCount(s, cnt) == IF MeasureReject(s) THEN 0 ELSE MeasureCount(s, cnt)

InitFinished_ge(s, cnt) ==
    ~MeasureReject(s) /\ InitCount(s, cnt) >= REQ_FLOW_INIT_COUNT

InitFinished_any(s, cnt) == ~MeasureReject(s)

\* "if finished"
InitFinished(s, cnt) ==
    ~MeasureReject(s) /\ InitCount(s, cnt) > REQ_FLOW_INIT_COUNT

flowInitOn(s) ==
    /\ Measure(s)
    /\ lastOp' = "flowInit"
    /\ fault_in' = flowFault
    /\ beta' = 0
    /\ flowQStats' = InitCount(s, flowQStats)
    /\ IF InitFinished(s, flowQStats)
       THEN /\ flowInitialized' = TRUE
            /\ flowFault' = FAULT_NONE
            /\ log' = "flow init"
       ELSE /\ UNCHANGED <<flowInitialized, flowFault>>
            /\ log' = "none"
    /\ UNCHANGED <<fault_lvl_disable, timeStamp, x, P, flow_innov,
                   flow_innov_var>>

flowInit == \E s \in Samples : flowInitOn(s)

DeinitCount_keep(cnt) == cnt

\* state after flowDeinit
DeinitCount(cnt) == 0

flowDeinit_clear ==
    /\ flowInitialized' = FALSE
    /\ flowQStats' = DeinitCount(flowQStats)
    /\ flowFault' = FAULT_NONE
    /\ lastOp' = "flowDeinit"
    /\ ret' = NoMeasure
    /\ beta' = 0
    /\ fault_in' = flowFault
    /\ log' = "none"
    /\ UNCHANGED <<fault_lvl_disable, timeStamp, time_last_flow,
                   hp_x, hp_y, x, P, flow_innov, flow_innov_var, sub>>

flowDeinit ==
    /\ flowInitialized' = FALSE
    /\ flowQStats' = DeinitCount(flowQStats)
    /\ lastOp' = "flowDeinit"
    /\ ret' = NoMeasure
    /\ beta' = 0
    /\ fault_in' = flowFault
    /\ log' = "none"
    /\ UNCHANGED <<flowFault, fault_lvl_disable, timeStamp, time_last_flow,
                   hp_x, hp_y, x, P, flow_innov, flow_innov_var, sub>>

flowCorrectOn_entry(s) ==
    /\ Measure(s)
    /\ lastOp' = "flowCorrect"
    /\ fault_in' = flowFault
    /\ log' = "none"
    /\ flowQStats' = MeasureCount(s, flowQStats)
    /\ IF MeasureReject(s)
       THEN /\ beta' = 0
            /\ UNCHANGED <<flowFault, x, P, flow_innov, flow_innov_var>>
       ELSE LET y == MeasureY(s, hp_x, hp_y)
                r == Residual(y, x)
                S == ResidualCov(s, P)
                b == Beta(r, S)
                f == FaultDetect(flowFault, b)
            IN /\ flow_innov' = r
               /\ flow_innov_var' = InnovVar(s, P)
               /\ beta' = b
               /\ flowFault' = f
               /\ IF CorrectionEnabled(flowFault, fault_lvl_disable)
                  THEN LET dx == StateCorrection(s, r, P, S)
                       IN /\ x' = <<x[1] + dx[1], x[2] + dx[2]>>
                          /\ P' = CovCorrection(P, S)
                  ELSE UNCHANGED <<x, P>>
    /\ UNCHANGED <<flowInitialized, fault_lvl_disable, timeStamp>>

flowCorrectOn(s) ==
    /\ Measure(s)
    /\ lastOp' = "flowCorrect"
    /\ fault_in' = flowFault
    /\ log' = "none"
    /\ flowQStats' = MeasureCount(s, flowQStats)
    /\ IF MeasureReject(s)
       THEN /\ beta' = 0
            /\ UNCHANGED <<flowFault, x, P, flow_innov, flow_innov_var>>
       ELSE LET y == MeasureY(s, hp_x, hp_y)
                r == Residual(y, x)
                S == ResidualCov(s, P)
                b == Beta(r, S)
                f == FaultDetect(flowFault, b)
            IN /\ flow_innov' = r
               /\ flow_innov_var' = InnovVar(s, P)
               /\ beta' = b
               /\ flowFault' = f
               /\ IF CorrectionEnabled(f, fault_lvl_disable)
                  THEN LET dx == StateCorrection(s, r, P, S)
                       IN /\ x' = <<x[1] + dx[1], x[2] + dx[2]>>
                          /\ P' = CovCorrection(P, S)
                  ELSE UNCHANGED <<x, P>>
    /\ UNCHANGED <<flowInitialized, fault_lvl_disable, timeStamp>>

flowCorrect == \E s \in Samples : flowCorrectOn(s)

TimedOut_ge(now, last) == now - last >= FLOW_TIMEOUT

TimedOut_swapped(now, last) == last - now > FLOW_TIMEOUT

\* _timeStamp - _time_last_flow > FLOW_TIMEOUT
TimedOut(now, last) == now - last > FLOW_TIMEOUT

flowCheckTimeout ==
    /\ lastOp' = "flowCheckTimeout"
    /\ ret' = NoMeasure
    /\ beta' = 0
    /\ fault_in' = flowFault
    /\ IF TimedOut(timeStamp, time_last_flow) /\ flowInitialized
       THEN /\ flowInitialized' = FALSE
            /\ flowQStats' = DeinitCount(flowQStats)
            /\ log' = "flow timeout"
       ELSE /\ UNCHANGED <<flowInitialized, flowQStats>>
            /\ log' = "none"
    /\ UNCHANGED <<flowFault, fault_lvl_disable, timeStamp, time_last_flow,
                   hp_x, hp_y, x, P, flow_innov, flow_innov_var, sub>>

\* the estimator's cycle time advances
TimeSteps == {FLOW_TIMEOUT, FLOW_TIMEOUT + 1}

Tick ==
    /\ \E d \in TimeSteps :
          /\ timeStamp + d <= MaxTime
          /\ timeStamp' = timeStamp + d
    /\ lastOp' = "tick"
    /\ ret' = NoMeasure
    /\ beta' = 0
    /\ fault_in' = flowFault
    /\ log' = "none"
    /\ UNCHANGED <<flowInitialized, flowFault, fault_lvl_disable, flowQStats,
                   time_last_flow, hp_x, hp_y, x, P, flow_innov,
                   flow_innov_var, sub>>

Next == flowInit \/ flowDeinit \/ flowCorrect \/ flowCheckTimeout \/ Tick

Spec == Init /\ [][Next]_vars

(***************************************************************************)
(* The first call after construction, on every combination of gate inputs  *)
(***************************************************************************)
flowInitOnce == lastOp = "none" /\ \E s \in GateSamples : flowInitOn(s)

flowCorrectOnce == lastOp = "none" /\ \E s \in GateSamples : flowCorrectOn(s)

NextOnce == flowInitOnce \/ flowCorrectOnce

SpecOnce == Init /\ [][NextOnce]_vars

TypeOK ==
    /\ flowInitialized \in BOOLEAN
    /\ flowFault \in FaultLevels
    /\ flowQStats \in 0..MaxCount
    /\ time_last_flow <= timeStamp

(***************************************************************************)
(* Properties                                                              *)
(***************************************************************************)
\* the module's own state and the shared estimator state
prog == <<flowInitialized, flowFault, flowQStats, time_last_flow, hp_x, hp_y,
          x, P, flow_innov, flow_innov_var>>

Measured == lastOp \in {"flowInit", "flowCorrect"}

\* C1: a flowInit call sets Initialized exactly when its measurement
\* succeeded and left the count above 10 (count 10 does not, count 11 does),
\* and in that call the fault level becomes NONE; any other flowInit call
\* leaves Initialized and the fault level as they were.
C1_InitThreshold ==
    [][lastOp' = "flowInit" =>
         /\ (ret' = OK /\ flowQStats' > 10)
               => (flowInitialized' /\ flowFault' = FAULT_NONE)
         /\ ~(ret' = OK /\ flowQStats' > 10)
               => (flowInitialized' = flowInitialized
                   /\ flowFault' = flowFault)
         /\ (~flowInitialized /\ ret' = OK /\ flowQStats' = 10)
               => ~flowInitialized'
         /\ (ret' = OK /\ flowQStats' = 11) => flowInitialized']_vars

C1_Witness ==
    /\ lastOp = "flowInit" /\ ret = OK
    /\ flowQStats = 11 /\ flowInitialized
    /\ fault_in = FAULT_MINOR /\ flowFault = FAULT_NONE
    /\ log = "flow init"

\* C2: while not Initialized, a flowInit call whose measurement is rejected
\* leaves the count at 0 and Initialized false, one whose measurement
\* succeeds raises the count by exactly 1, and Initialized is not set while
\* the count is at most 10.
C2_InitCount ==
    [][(lastOp' = "flowInit" /\ ~flowInitialized) =>
         /\ ret' # OK => (flowQStats' = 0 /\ ~flowInitialized')
         /\ ret' = OK => flowQStats' = flowQStats + 1
         /\ (ret' = OK /\ flowQStats' <= 10) => ~flowInitialized']_vars

C2_Witness ==
    /\ lastOp = "flowInit" /\ ret = -1
    /\ flowQStats = 0 /\ ~flowInitialized
    /\ time_last_flow < timeStamp

\* C3: flowCheckTimeout deinitializes (Initialized false, count 0) when
\* Initialized and more than 1,000,000 elapsed since the last accepted
\* measurement; otherwise it changes nothing and emits no diagnostic.
C3_Timeout ==
    [][lastOp' = "flowCheckTimeout" =>
         IF flowInitialized /\ timeStamp - time_last_flow > 1000000
         THEN ~flowInitialized' /\ flowQStats' = 0
         ELSE UNCHANGED prog /\ log' = "none"]_vars

C3_Witness ==
    /\ lastOp = "flowCheckTimeout" /\ log = "flow timeout"
    /\ ~flowInitialized /\ flowQStats = 0
    /\ timeStamp - time_last_flow = 1000001

\* C4: in a flowCorrect call with an accepted measurement, beta above the
\* threshold raises NONE to MINOR and leaves MINOR or higher unchanged, beta
\* within the threshold gives NONE; every step of the fault level is
\* non-decreasing or a reset to NONE.
C4_Hysteresis ==
    [][/\ (lastOp' = "flowCorrect" /\ ret' = OK) =>
            /\ (beta' > BETA_TABLE[2] /\ flowFault = FAULT_NONE)
                  => flowFault' = FAULT_MINOR
            /\ (beta' > BETA_TABLE[2] /\ flowFault >= FAULT_MINOR)
                  => flowFault' = flowFault
            /\ beta' <= BETA_TABLE[2] => flowFault' = FAULT_NONE
       /\ (flowFault' >= flowFault \/ flowFault' = FAULT_NONE)]_vars

C4_Witness ==
    /\ lastOp = "flowCorrect" /\ ret = OK
    /\ beta > BETA_TABLE[2]
    /\ fault_in = FAULT_NONE /\ flowFault = FAULT_MINOR

\* C5: a flowCorrect call with an accepted measurement that leaves the fault
\* detector at or above the disable threshold does not change x and P but
\* publishes the residual and its variance; x and P change only in calls
\* where the level is strictly below the threshold.
C5_Suppression ==
    [][(lastOp' = "flowCorrect" /\ ret' = OK) =>
         /\ flow_innov' = Residual(MeasureY(sub', hp_x, hp_y), x)
         /\ flow_innov_var' = <<NoiseR(sub'), NoiseR(sub')>>
         /\ flowFault' >= fault_lvl_disable => (x' = x /\ P' = P)
         /\ (x' # x \/ P' # P) => flowFault' < fault_lvl_disable]_vars

C5_Witness ==
    /\ lastOp = "flowCorrect" /\ ret = OK
    /\ flowFault >= fault_lvl_disable
    /\ beta > BETA_TABLE[2]
    /\ flow_innov # <<0, 0>> /\ flow_innov_var # <<0, 0>>
    /\ x = <<0, 0>>

C7_Timestamp ==
    (Measured /\ ret = OK) => time_last_flow = timeStamp

C7_Witness ==
    /\ lastOp = "flowCorrect" /\ ret = OK
    /\ sub.flow_gyro_comp
    /\ timeStamp > 0 /\ time_last_flow = timeStamp

\* C8: a sample rejected by the attitude, height, quality or height-validity
\* gate whose integration span is valid still sets the last accepted
\* measurement time to the cycle time.
C8_StampOnGatedSample ==
    (/\ Measured
     /\ (AttitudeReject(sub) \/ AglReject(sub) \/ QualityReject(sub)
         \/ TZReject(sub))
     /\ sub.integration_timespan >= 1
     /\ sub.integration_timespan <= 500000)
    => time_last_flow = timeStamp

\* C9: the measurement is rejected whenever roll or pitch is above 0.5 rad
\* or below -0.5 rad.
C9_AttitudeMagnitude ==
    (/\ Measured
     /\ (sub.roll > 500 \/ sub.roll < -500
         \/ sub.pitch > 500 \/ sub.pitch < -500))
    => ret = -1

\* C10: when the attitude gate passes, the measurement is rejected exactly
\* if height < 0.3, quality < minimum, the height-validity flag is false, or
\* the integration span is > 0.5 s or < 1e-6 s.
C10_Gates ==
    (Measured /\ ~(sub.roll > 500 \/ sub.pitch > 500)) =>
        (ret = -1 <=>
            \/ sub.agl < 300
            \/ sub.quality < flow_min_q
            \/ ~sub.validTZ
            \/ sub.integration_timespan > 500000
            \/ sub.integration_timespan < 1)

C10_Witness ==
    /\ Measured /\ ret = OK
    /\ sub.agl = 300 /\ sub.quality = flow_min_q
    /\ sub.integration_timespan \in {1, 500000}
    /\ sub.roll = 500


\* C11 (as stated): after any rejected measurement, in flowInit or in
\* flowCorrect, the quality-statistics count is 0.
C11_ResetOnAnyFailure ==
    (Measured /\ ret = -1) => flowQStats = 0

\* C11 (amended): a rejected flowInit and a flowDeinit leave the count at 0,
\* a rejected flowCorrect leaves the count as it was, and every successful
\* measurement raises it by exactly 1; the count is the number of
\* successful measurements since the last rejected flowInit or deinit.
C11_ResetInInitOnly ==
    [][/\ (lastOp' = "flowInit" /\ ret' # OK) => flowQStats' = 0
       /\ (lastOp' = "flowCorrect" /\ ret' # OK) => flowQStats' = flowQStats
       /\ (lastOp' \in {"flowInit", "flowCorrect"} /\ ret' = OK)
             => flowQStats' = flowQStats + 1
       /\ lastOp' = "flowDeinit" => flowQStats' = 0
       /\ lastOp' = "flowCheckTimeout"
             => flowQStats' \in {0, flowQStats}
       /\ lastOp' = "tick" => flowQStats' = flowQStats]_vars

C11_Witness ==
    /\ lastOp = "flowCorrect" /\ ret = -1
    /\ flowQStats = 5
    /\ ~flowInitialized


\* C12: in every flowCorrect call with an accepted measurement the published
\* innovation is r = y - C*x of the pre-correction state and the published
\* innovation variance of each axis is the diagonal entry of
\* S = C*P*C^T + R.
C12_InnovationOfS ==
    [][(lastOp' = "flowCorrect" /\ ret' = OK) =>
         /\ flow_innov' = Residual(MeasureY(sub', hp_x, hp_y), x)
         /\ flow_innov_var' = <<P[1] + NoiseR(sub'), P[2] + NoiseR(sub')>>]_vars

\* C16: a call made under the discipline (flowInit only while not
\* Initialized, flowCorrect only while Initialized), like every flowDeinit,
\* flowCheckTimeout and tick, keeps "Initialized implies count > 10"; the
\* initial state has it, so it holds in every state the discipline reaches.
\* Outside the discipline a rejected flowInit while Initialized leaves the
\* count at 0 and Initialized true.
C16_CountWhileInitialized ==
    [][/\ (/\ lastOp' = "flowInit" => ~flowInitialized
           /\ lastOp' = "flowCorrect" => flowInitialized
           /\ flowInitialized => flowQStats > 10)
          => (flowInitialized' => flowQStats' > 10)
       /\ (lastOp' = "flowInit" /\ flowInitialized /\ ret' # OK)
          => (flowQStats' = 0 /\ flowInitialized')]_vars

C16_Witness ==
    /\ lastOp = "flowInit" /\ ret = -1
    /\ flowInitialized /\ flowQStats = 0

\* C19: flowDeinit, explicit or from the timeout check, changes only
\* Initialized and the quality statistics; a fault level other than NONE
\* changes only in a flowInit call that completes initialization or in a
\* flowCorrect call whose beta is within the threshold, and then to NONE.
C19_DeinitFrame ==
    [][/\ lastOp' \in {"flowDeinit", "flowCheckTimeout"}
          => UNCHANGED <<flowFault, time_last_flow, hp_x, hp_y, flow_innov,
                         flow_innov_var, x, P>>
       /\ lastOp' = "flowDeinit" => (~flowInitialized' /\ flowQStats' = 0)
       /\ (flowFault # FAULT_NONE /\ flowFault' # flowFault)
          => /\ flowFault' = FAULT_NONE
             /\ \/ lastOp' = "flowInit" /\ log' = "flow init"
                \/ /\ lastOp' = "flowCorrect" /\ ret' = OK
                   /\ beta' <= BETA_TABLE[2]]_vars

C19_Witness ==
    /\ lastOp = "flowDeinit"
    /\ flowFault = FAULT_MINOR /\ fault_lvl_disable = FAULT_SEVERE
    /\ ~flowInitialized /\ flowQStats = 0
    /\ time_last_flow > 0
    /\ x # <<0, 0>>


(***************************************************************************)
(* The estimator constructed with no fault                                 *)
(***************************************************************************)
InitNone == Init /\ flowFault = FAULT_NONE

SpecNone == InitNone /\ [][Next]_vars

\* C13: starting from fault level NONE the level is NONE or MINOR in every
\* reachable state, and with the disable threshold above MINOR every
\* flowCorrect call with an accepted measurement applies the correction to
\* x and P.
C13_AtMostMinor ==
    /\ [](flowFault \in {FAULT_NONE, FAULT_MINOR})
    /\ [][(/\ lastOp' = "flowCorrect" /\ ret' = OK
           /\ fault_lvl_disable > FAULT_MINOR) =>
            LET r == Residual(MeasureY(sub', hp_x, hp_y), x)
                S == ResidualCov(sub', P)
                dx == StateCorrection(sub', r, P, S)
            IN /\ x' = <<x[1] + dx[1], x[2] + dx[2]>>
               /\ P' = CovCorrection(P, S)]_vars

C13_Witness ==
    /\ lastOp = "flowCorrect" /\ ret = OK
    /\ fault_lvl_disable > FAULT_MINOR
    /\ fault_in = FAULT_NONE /\ flowFault = FAULT_MINOR
    /\ beta > BETA_TABLE[2]
    /\ x # <<0, 0>>


(***************************************************************************)
(* Cycles over a longer horizon: the timestamp advances and the timeout    *)
(* check runs every cycle                                                  *)
(***************************************************************************)
LiveSamples == {Nominal, [Nominal EXCEPT !.agl = 200]}

flowInitLive == \E s \in LiveSamples : flowInitOn(s)

flowCorrectLive == \E s \in LiveSamples : flowCorrectOn(s)

TickLive ==
    /\ \E d \in TimeSteps :
          /\ timeStamp + d <= MaxTimeLive
          /\ timeStamp' = timeStamp + d
    /\ lastOp' = "tick"
    /\ ret' = NoMeasure
    /\ beta' = 0
    /\ fault_in' = flowFault
    /\ log' = "none"
    /\ UNCHANGED <<flowInitialized, flowFault, fault_lvl_disable, flowQStats,
                   time_last_flow, hp_x, hp_y, x, P, flow_innov,
                   flow_innov_var, sub>>

NextLive ==
    flowInitLive \/ flowCorrectLive \/ flowDeinit \/ flowCheckTimeout
    \/ TickLive

SpecLive ==
    /\ Init
    /\ [][NextLive]_vars
    /\ WF_vars(TickLive)
    /\ WF_vars(flowCheckTimeout)

C18_NoFlapping ==
    /\ []((lastOp = "flowInit" /\ log = "flow init")
            => (flowInitialized /\ time_last_flow = timeStamp))
    /\ [][(/\ lastOp' = "flowCheckTimeout" /\ flowInitialized
           /\ timeStamp - time_last_flow <= 1000000)
            => flowInitialized']_vars

C18_Witness ==
    /\ lastOp = "flowCheckTimeout" /\ flowInitialized
    /\ time_last_flow > FLOW_TIMEOUT
    /\ timeStamp - time_last_flow = FLOW_TIMEOUT


(***************************************************************************)
(* Measurements with gyro rate integrals, compensated and not             *)
(***************************************************************************)
GyroSample == [Nominal EXCEPT !.gyro_x_rate_integral = 8,
                              !.gyro_y_rate_integral = 4]

GyroSamples ==
    {Nominal,
     GyroSample,
     [Nominal EXCEPT !.flow_gyro_comp = TRUE],
     [GyroSample EXCEPT !.flow_gyro_comp = TRUE],
     [GyroSample EXCEPT !.flow_gyro_comp = TRUE, !.agl = 200],
     [GyroSample EXCEPT !.flow_gyro_comp = TRUE,
                        !.integration_timespan = 500001]}

flowInitGyro == \E s \in GyroSamples : flowInitOn(s)

flowCorrectGyro == \E s \in GyroSamples : flowCorrectOn(s)

NextGyro == flowInitGyro \/ flowCorrectGyro \/ flowDeinit

SpecGyro == Init /\ [][NextGyro]_vars

ZeroFilter == [u |-> 0, y |-> 0]

\* C15: a measurement call with compensation enabled that passes the
\* integration-span check feeds each filter exactly once with its gyro
\* integral; a rejected call, or one with compensation disabled, leaves both
\* filters alone; with compensation disabled the observation is the one
\* obtained with zero rotation compensation.
C15_FilterFeed ==
    [][/\ lastOp' \in {"flowInit", "flowCorrect"} =>
            IF ret' = OK /\ sub'.flow_gyro_comp
            THEN /\ hp_x' = HighPassUpdate(hp_x, sub'.gyro_x_rate_integral)
                 /\ hp_y' = HighPassUpdate(hp_y, sub'.gyro_y_rate_integral)
            ELSE hp_x' = hp_x /\ hp_y' = hp_y
       /\ (lastOp' = "flowCorrect" /\ ret' = OK /\ ~sub'.flow_gyro_comp) =>
            flow_innov' =
               Residual(MeasureY([sub' EXCEPT !.gyro_x_rate_integral = 0,
                                              !.gyro_y_rate_integral = 0,
                                              !.flow_gyro_comp = TRUE],
                                 ZeroFilter, ZeroFilter), x)]_vars

C15_Witness ==
    /\ lastOp = "flowCorrect" /\ ret = OK
    /\ sub.flow_gyro_comp
    /\ hp_x = [u |-> 8, y |-> 2]
    /\ hp_y = [u |-> 4, y |-> 1]


(***************************************************************************)
(* Corrections on an estimate with a larger velocity variance              *)
(***************************************************************************)
InitFusion ==
    /\ flowInitialized = FALSE
    /\ flowFault \in FaultLevels
    /\ fault_lvl_disable \in {FAULT_MINOR, FAULT_SEVERE}
    /\ flowQStats = 0
    /\ timeStamp = 0
    /\ time_last_flow = 0
    /\ hp_x = [u |-> 0, y |-> 0]
    /\ hp_y = [u |-> 0, y |-> 0]
    /\ x = <<0, 0>>
    /\ P = <<InitPFusion, InitPFusion>>
    /\ flow_innov = <<0, 0>>
    /\ flow_innov_var = <<0, 0>>
    /\ sub = Nominal
    /\ lastOp = "none"
    /\ ret = NoMeasure
    /\ beta = 0
    /\ fault_in = flowFault
    /\ log = "none"

\* nominal, moderate and outlying flow, and a rejected sample
FusionSamples ==
    {Nominal,
     [Nominal EXCEPT !.pixel_flow_x_integral = 60],
     [Nominal EXCEPT !.pixel_flow_x_integral = 110],
     [Nominal EXCEPT !.agl = 200]}

flowCorrectFusion == \E s \in FusionSamples : flowCorrectOn(s)

NextFusion == flowCorrectFusion \/ flowDeinit

SpecFusion == InitFusion /\ [][NextFusion]_vars

\* C17: the correction is decided on the level the fault detector leaves in
\* the same call: entered at or above the disable threshold with beta within
\* the threshold, the call resets the level to NONE and corrects x and P;
\* entered at NONE with beta above the threshold, it corrects x and P when
\* MINOR is strictly below the disable threshold and leaves them otherwise.
C17_UpdatedLevelDecides ==
    [][(lastOp' = "flowCorrect" /\ ret' = OK) =>
         LET r == Residual(MeasureY(sub', hp_x, hp_y), x)
             S == ResidualCov(sub', P)
             dx == StateCorrection(sub', r, P, S)
             applied == /\ x' = <<x[1] + dx[1], x[2] + dx[2]>>
                        /\ P' = CovCorrection(P, S)
         IN /\ (flowFault >= fault_lvl_disable /\ beta' <= BETA_TABLE[2])
                  => (flowFault' = FAULT_NONE /\ applied)
            /\ (flowFault = FAULT_NONE /\ beta' > BETA_TABLE[2])
                  => IF FAULT_MINOR < fault_lvl_disable
                     THEN applied
                     ELSE x' = x /\ P' = P]_vars

C17_Witness ==
    /\ lastOp = "flowCorrect" /\ ret = OK
    /\ fault_in >= fault_lvl_disable /\ flowFault = FAULT_NONE
    /\ beta <= BETA_TABLE[2]
    /\ x = <<-3, 0>> /\ P = <<2, 2>>


(***************************************************************************)
(* The first correction after construction, on combinations of flow,       *)
(* height, span, attitude and compensation                                 *)
(***************************************************************************)
FlowAngles == {-10, 0, 10, 20}
FlowHeights == {300, 1000, 2000}
FlowSpans == {1, 10000, 20000, 500000}

FlowSamples ==
    {[Nominal EXCEPT !.pixel_flow_x_integral = fx,
                     !.pixel_flow_y_integral = fy,
                     !.agl = h, !.integration_timespan = t,
                     !.roll = a, !.flow_gyro_comp = c,
                     !.gyro_x_rate_integral = g] :
        fx \in FlowAngles, fy \in FlowAngles, h \in FlowHeights,
        t \in FlowSpans, a \in {0, 500}, c \in BOOLEAN, g \in {0, 8}}

flowCorrectFlow == lastOp = "none" /\ \E s \in FlowSamples : flowCorrectOn(s)

SpecFlow == Init /\ [][flowCorrectFlow]_vars

\* C20: for an accepted measurement with roll = pitch = 0 and gyro
\* compensation disabled the observation is -(flow angle * height) / span
\* on each axis (mrad * mm / us = m/s); height 1.0, span 0.01 s and flow
\* angle x 0.01 rad give velocity x = -1.
C20_Observation ==
    [][(/\ lastOp' = "flowCorrect" /\ ret' = OK
        /\ sub'.roll = 0 /\ sub'.pitch = 0 /\ ~sub'.flow_gyro_comp) =>
          /\ flow_innov'[1] + x[1] =
                Div(-(sub'.pixel_flow_x_integral * sub'.agl),
                    sub'.integration_timespan)
          /\ flow_innov'[2] + x[2] =
                Div(-(sub'.pixel_flow_y_integral * sub'.agl),
                    sub'.integration_timespan)
          /\ (/\ sub'.agl = 1000 /\ sub'.integration_timespan = 10000
              /\ sub'.pixel_flow_x_integral = 10)
                => flow_innov'[1] + x[1] = -1]_vars

C20_Witness ==
    /\ lastOp = "flowCorrect" /\ ret = OK
    /\ sub.roll = 0 /\ sub.pitch = 0 /\ ~sub.flow_gyro_comp
    /\ sub.agl = 1000 /\ sub.integration_timespan = 10000
    /\ sub.pixel_flow_x_integral = 10 /\ sub.pixel_flow_y_integral = 20
    /\ flow_innov = <<-1, -2>>

====
